---- MODULE Spec2Model ----
(***************************************************************************)
(* A model of the call-stack profiler of src/host/premake_main.c: the call *)
(* tree built by the Lua call/return hook, the symbol cache, the two tree  *)
(* reductions, and the flatten / sort / fold / print pipeline of main.     *)
(*                                                                         *)
(* Text is a sequence of byte values (ASCII), so that strcmp, strrchr and  *)
(* sprintf are computed as the C library computes them.                    *)
(*                                                                         *)
(* A uint64_t is represented by the integer v of smallest magnitude that   *)
(* is congruent to it modulo 2^64: the code only adds and subtracts these  *)
(* values, which commutes with that representation, and every value of the *)
(* model is far below 2^63 in magnitude.  A negative v is the unsigned     *)
(* value 2^64 + v: the subtraction that produced it wrapped around.        *)
(***************************************************************************)
EXTENDS Integers, Sequences, FiniteSets, TLC

VARIABLES
    pc,             \* position of main: "init", "run", "reduce", ... "done"
    z,              \* main's local z
    ret,            \* the value main returned ("none" before it returns)
    frames,         \* the StackFrame objects: frames[1] is root_frame
    current_frame,  \* the cursor (an index of frames)
    clock,          \* the last value __rdtsc() returned
    strheap,        \* the texts strdup allocated in parseCodeLocation
    trace,          \* history: the events the host delivered, in order, each
                    \* with the frame it entered (call) or left (return)
    stacks,         \* the FlatStack array of main
    nstacks,        \* main's local nstacks
    alloc_count,    \* the length flatten_stacks allocated for the array
    work,           \* the pending append_children calls (recursion stack)
    printed,        \* the lines print_stacks wrote ("nofile" when not opened)
    g_resolved,     \* the symbol cache, newest entry first
    resolve_log,    \* history: the resovle calls made, in order
    fold_in,        \* history: the array handed to the last fold_stacks call
    fold_calls      \* history: the number of fold_stacks calls so far

vars == <<pc, z, ret, frames, current_frame, clock, strheap, trace, stacks,
          nstacks, alloc_count, work, printed, g_resolved, resolve_log,
          fold_in, fold_calls>>

treeVars == <<frames, current_frame, clock, strheap, trace>>
flatVars == <<stacks, nstacks, alloc_count, work, printed>>
symVars == <<g_resolved, resolve_log>>
foldVars == <<fold_in, fold_calls>>

(***************************************************************************)
(* Bounds of the model.                                                    *)
(***************************************************************************)
MaxCalls == 3          \* call events the host delivers in one run
MaxResolveCalls == 3   \* resovle calls of the resolver specification
MaxRecords == 3        \* length of the arrays handed to fold_stacks alone

(***************************************************************************)
(* Text.                                                                   *)
(***************************************************************************)
NULL == 0

STR_root == <<114, 111, 111, 116>>                       \* "root"
STR_LUA == <<76, 85, 65, 58>>                            \* "LUA:"
STR_C == <<67, 58>>                                      \* "C:"
STR_LuaMain == <<76, 117, 97, 58, 109, 97, 105, 110>>    \* "Lua:main"
STR_semi == <<59>>                                       \* ";"
STR_colon == <<58>>                                      \* ":"
STR_0x == <<48, 120>>                                    \* "0x"
STR_minus == <<45>>                                      \* "-"
CH_slash == 47
CH_question == 63

\* strcmp: the sign of the first differing byte pair (bytes are unsigned); the
\* end of a text is its terminating 0 byte, smaller than every other byte.
RECURSIVE StrcmpFrom(_, _, _)
StrcmpFrom(a, b, i) ==
    IF i > Len(a) /\ i > Len(b) THEN 0
    ELSE IF i > Len(a) THEN -1
    ELSE IF i > Len(b) THEN 1
    ELSE IF a[i] < b[i] THEN -1
    ELSE IF a[i] > b[i] THEN 1
    ELSE StrcmpFrom(a, b, i + 1)

strcmp(a, b) == StrcmpFrom(a, b, 1)

strlen(s) == Len(s)

\* strrchr(s, c): the index of the last occurrence of c in s, 0 (NULL) if none.
strrchr(s, c) ==
    IF \E i \in 1..Len(s) : s[i] = c
    THEN CHOOSE i \in 1..Len(s) : s[i] = c /\ \A j \in (i+1)..Len(s) : s[j] # c
    ELSE NULL

\* "%d" of sprintf.
RECURSIVE DecDigits(_)
DecDigits(n) ==
    IF n < 10 THEN <<48 + n>> ELSE DecDigits(n \div 10) \o <<48 + (n % 10)>>

FormatD(n) == IF n < 0 THEN STR_minus \o DecDigits(0 - n) ELSE DecDigits(n)

\* "%p" of the Microsoft C runtime: the pointer as upper-case hexadecimal digits,
\* zero-padded to two digits per byte of a pointer.
SizeofPointer == 8

HexDigit(d) == IF d < 10 THEN 48 + d ELSE 55 + d

RECURSIVE HexDigits(_, _)
HexDigits(n, width) ==
    IF width = 0 THEN <<>>
    ELSE HexDigits(n \div 16, width - 1) \o <<HexDigit(n % 16)>>

FormatP(p) == HexDigits(p, 2 * SizeofPointer)

(***************************************************************************)
(* The host: the call-site descriptors (lua_Debug after lua_getinfo) and   *)
(* the Lua string table.  A function name is a pointer into the string     *)
(* table, which holds one copy of each text.                               *)
(***************************************************************************)
LuaString == (11 :> <<65>>) @@ (12 :> <<66>>) @@ (13 :> <<67>>) @@ (19 :> <<63, 63>>)

CFunctions == {201, 202}

SRC_f == <<64, 115, 47, 102>>     \* "@s/f"
SRC_g == <<64, 103>>              \* "@g"

Descriptor(what, name, source, currentline, cfunc) ==
    [what |-> what, name |-> name, source |-> source,
     currentline |-> currentline, cfunc |-> cfunc]

NativeSite(c) == Descriptor("C", NULL, <<>>, -1, c)
NamedSite(n) == Descriptor("Lua", n, SRC_g, 1, NULL)
AnonymousSite(src, line) == Descriptor("Lua", NULL, src, line, NULL)
MainSite == Descriptor("main", NULL, SRC_g, 0, NULL)
TailSite == Descriptor("tail", NULL, <<>>, -1, NULL)

\* The call sites of the program under the profiler.
Descriptors ==
    {NativeSite(201), NamedSite(11), AnonymousSite(SRC_f, 7), MainSite, TailSite}

(***************************************************************************)
(* The call tree.                                                          *)
(***************************************************************************)
CodeLocation(type, addr) == [type |-> type, addr |-> addr]

\* A zero-filled StackFrame (static storage, calloc): every field 0, and 0 is
\* CLT_Lua in enum CodeLocationType.
ZeroFrame ==
    [start |-> 0, elapsed |-> 0, parent |-> NULL, next |-> NULL, child |-> NULL,
     code |-> CodeLocation("CLT_Lua", NULL), children_time |-> 0, overhead |-> 0]

root_frame == 1

\* The address strdup returns for its i-th allocation, and the text at an address.
HeapAddr(i) == 1000 + i

TextAt(heap, addr) ==
    IF addr \in DOMAIN LuaString THEN LuaString[addr] ELSE heap[addr - 1000]

\* parseCodeLocation with its last test removed: every kind that is neither
\* native nor interpreted is taken for the program entry.
parseCodeLocation_lenient(ar, heap) ==
    IF ar.what = "C"
    THEN [ok |-> TRUE, cl |-> CodeLocation("CLT_C", ar.cfunc), heap |-> heap]
    ELSE IF ar.what = "Lua" /\ ar.name # NULL
    THEN [ok |-> TRUE, cl |-> CodeLocation("CLT_Lua", ar.name), heap |-> heap]
    ELSE [ok |-> TRUE, cl |-> CodeLocation("CLT_Main", NULL), heap |-> heap]

\* parseCodeLocation: the location, the strdup heap after the call, and whether
\* the call returned (it aborts on an unknown kind).
parseCodeLocation(ar, heap) ==
    IF ar.what = "C"
    THEN [ok |-> TRUE, cl |-> CodeLocation("CLT_C", ar.cfunc), heap |-> heap]
    ELSE IF ar.what = "Lua"
    THEN IF ar.name # NULL /\ LuaString[ar.name][1] # CH_question
         THEN [ok |-> TRUE, cl |-> CodeLocation("CLT_Lua", ar.name), heap |-> heap]
         ELSE LET lastSlash == strrchr(ar.source, CH_slash)
                  source == IF lastSlash # NULL
                            THEN SubSeq(ar.source, lastSlash + 1, Len(ar.source))
                            ELSE ar.source
                  buffer == source \o STR_colon \o FormatD(ar.currentline)
              IN  [ok |-> TRUE,
                   cl |-> CodeLocation("CLT_LuaAnonymous", HeapAddr(Len(heap) + 1)),
                   heap |-> Append(heap, buffer)]
    ELSE IF ar.what = "main"
    THEN [ok |-> TRUE, cl |-> CodeLocation("CLT_Main", NULL), heap |-> heap]
    ELSE [ok |-> FALSE, cl |-> CodeLocation("CLT_Lua", NULL), heap |-> heap]

\* The search loop of findChildInCurrent: the first frame of the sibling list
\* starting at child whose code equals cl, NULL if there is none.
RECURSIVE SearchChild(_, _, _)
SearchChild(fs, child, cl) ==
    IF child = NULL THEN NULL
    ELSE IF cl.type = fs[child].code.type /\ cl.addr = fs[child].code.addr
    THEN child
    ELSE SearchChild(fs, fs[child].next, cl)

\* findChildInCurrent after parseCodeLocation returned cl: the frames after the
\* call and the frame it returns.
findChildInCurrent(fs, cur, cl) ==
    LET found == SearchChild(fs, fs[cur].child, cl)
        child == Len(fs) + 1
    IN  IF found # NULL
        THEN [frames |-> fs, child |-> found]
        ELSE [frames |->
                 [Append(fs, [ZeroFrame EXCEPT !.parent = cur,
                                               !.next = fs[cur].child,
                                               !.code = cl])
                     EXCEPT ![cur].child = child],
              child |-> child]

\* hook_enter without its store to start.
hook_enter_unstarted(fs, cur, cl, t0, t1) ==
    LET r == findChildInCurrent(fs, cur, cl)
    IN  [frames |-> [r.frames EXCEPT ![r.child].overhead = t1 - t0],
         current_frame |-> r.child]

\* hook_enter without its assignment to current_frame.
hook_enter_unmoved(fs, cur, cl, t0, t1) ==
    LET r == findChildInCurrent(fs, cur, cl)
    IN  [frames |-> [r.frames EXCEPT ![r.child].start = t0,
                                     ![r.child].overhead = t1 - t0],
         current_frame |-> cur]

\* hook_enter with the two readings of the counter, t0 and t1.
hook_enter(fs, cur, cl, t0, t1) ==
    LET r == findChildInCurrent(fs, cur, cl)
    IN  [frames |-> [r.frames EXCEPT ![r.child].start = t0,
                                     ![r.child].overhead = t1 - t0],
         current_frame |-> r.child]

\* hook_leave storing the time of the activation just ended in place of adding it.
hook_leave_restarted(fs, cur, stop, t1) ==
    LET parent == fs[cur].parent
        fs1 == [fs EXCEPT ![cur].elapsed = stop - fs[cur].start]
    IN  [frames |-> [fs1 EXCEPT ![parent].overhead = @ + (t1 - stop)],
         current_frame |-> parent]

\* hook_leave charging the cost of the return before it moves the cursor: to
\* the frame being left.
hook_leave_charges_left(fs, cur, stop, t1) ==
    LET parent == fs[cur].parent
        fs1 == [fs EXCEPT ![cur].elapsed = @ + (stop - fs[cur].start)]
    IN  [frames |-> [fs1 EXCEPT ![cur].overhead = @ + (t1 - stop)],
         current_frame |-> parent]

\* hook_leave with the two readings of the counter, stop and t1.
hook_leave(fs, cur, stop, t1) ==
    LET parent == fs[cur].parent
        fs1 == [fs EXCEPT ![cur].elapsed = @ + (stop - fs[cur].start)]
    IN  [frames |-> [fs1 EXCEPT ![parent].overhead = @ + (t1 - stop)],
         current_frame |-> parent]

(***************************************************************************)
(* What the history says: the calls still open, and the events so far.     *)
(***************************************************************************)
CallEvents(tr) == {i \in 1..Len(tr) : tr[i].event = "call"}
NumCalls(tr) == Cardinality(CallEvents(tr))

\* The host's stack of open calls after the events tr, outermost first: each
\* entry is the index in tr of the call event that opened it.
RECURSIVE OpenCalls(_)
OpenCalls(tr) ==
    IF tr = <<>> THEN <<>>
    ELSE LET before == OpenCalls(SubSeq(tr, 1, Len(tr) - 1))
         IN  IF tr[Len(tr)].event = "call"
             THEN Append(before, Len(tr))
             ELSE SubSeq(before, 1, Len(before) - 1)

\* The number of calls still open: the calls less the returns.
Depth == NumCalls(trace) - Cardinality({i \in 1..Len(trace) : trace[i].event = "return"})

\* callhook: the dispatch on ar->event.  ok is FALSE when parseCodeLocation
\* aborted the program.
callhook(event, ar, fs, cur, heap, t0, t1) ==
    IF event = "LUA_HOOKCALL"
    THEN LET p == parseCodeLocation(ar, heap)
         IN  IF p.ok
             THEN LET h == hook_enter(fs, cur, p.cl, t0, t1)
                  IN  [ok |-> TRUE, frames |-> h.frames,
                       current_frame |-> h.current_frame, heap |-> p.heap]
             ELSE [ok |-> FALSE, frames |-> fs, current_frame |-> cur, heap |-> heap]
    ELSE IF event \in {"LUA_HOOKTAILRET", "LUA_HOOKRET"}
    THEN LET h == hook_leave(fs, cur, t0, t1)
         IN  [ok |-> TRUE, frames |-> h.frames,
              current_frame |-> h.current_frame, heap |-> heap]
    ELSE [ok |-> TRUE, frames |-> fs, current_frame |-> cur, heap |-> heap]

(***************************************************************************)
(* The tree reducer.                                                       *)
(***************************************************************************)
RECURSIVE reduce_overhead(_, _)
RECURSIVE ReduceLoop(_, _)
ReduceLoop(fs, it) ==
    IF it = NULL THEN fs ELSE ReduceLoop(reduce_overhead(fs, it), fs[it].next)

reduce_overhead(fs, frame) ==
    ReduceLoop([fs EXCEPT ![frame].elapsed = @ - fs[frame].overhead],
               fs[frame].child)

RECURSIVE calculate_child_time(_, _)
RECURSIVE CalculateLoop(_, _, _)
\* The loop of calculate_child_time from child it on, child_time so far.
CalculateLoop(fs, it, child_time) ==
    IF it = NULL THEN [frames |-> fs, child_time |-> child_time]
    ELSE LET fs1 == calculate_child_time(fs, it)
         IN  CalculateLoop(fs1, fs1[it].next,
                           fs1[it].elapsed + fs1[it].children_time)

\* calculate_child_time without its store to children_time.
calculate_child_time_unstored(fs, frame) ==
    LET r == CalculateLoop(fs, fs[frame].child, 0)
    IN  [r.frames EXCEPT ![frame].elapsed = @ - r.child_time]

calculate_child_time(fs, frame) ==
    LET r == CalculateLoop(fs, fs[frame].child, 0)
    IN  [r.frames EXCEPT ![frame].children_time = r.child_time,
                         ![frame].elapsed = @ - r.child_time]

(***************************************************************************)
(* The symbol resolver.                                                    *)
(***************************************************************************)
SymbolName == (201 :> <<112>>) @@ (202 :> <<113>>)

\* struct ResolvedFrame_: the offsets of its fields, and the size line 191
\* allocates for one, sizeof(resolvedFrame), the size of a pointer.
OFFSET_next == 0
OFFSET_addr == 8
OFFSET_name == 16
ResolvedFrameAllocated == SizeofPointer

\* What a read finds in place of a field that lies outside its block.
JunkPointer == NULL - 1
JunkTexts == {<<>>}

\* What a pointer-sized field at offset off of a ResolvedFrame reads back as after
\* value was stored into it: value when the field lies inside the allocated
\* block; value or whatever the allocator and the neighbouring blocks left
\* there (junk) when it lies outside.
FieldReadsBack(off, value, junk) ==
    IF off + SizeofPointer <= ResolvedFrameAllocated THEN {value} ELSE {value} \cup junk

\* Whether some store of resovle lands outside the block it allocated.
ResolvedFrameOverrun ==
    \E off \in {OFFSET_next, OFFSET_addr, OFFSET_name} :
        off + SizeofPointer > ResolvedFrameAllocated

\* The scan of the cache: the first entry for addr, 0 if there is none.
CacheFind(cache, addr) ==
    IF \E i \in 1..Len(cache) : cache[i].addr = addr
    THEN CHOOSE i \in 1..Len(cache) :
            cache[i].addr = addr /\ \A j \in 1..(i - 1) : cache[j].addr # addr
    ELSE 0

\* resovle(addr): the possible outcomes of one call with the cache as it is.
\* found: what SymFromAddr answers, if it is asked.  An outcome names the cache
\* after the call, the text returned, whether SymFromAddr was asked, and whether
\* the process died in the call.
resovle(cache, addr, found) ==
    LET hit == CacheFind(cache, addr)
        text == IF found THEN SymbolName[addr] ELSE STR_0x \o FormatP(addr)
    IN  IF hit # 0
        THEN {[cache |-> cache, name |-> cache[hit].name, looked |-> FALSE,
               crashed |-> FALSE]}
        ELSE {[cache |-> <<[addr |-> a, name |-> n]>> \o cache, name |-> n,
               looked |-> TRUE, crashed |-> FALSE] :
                  a \in FieldReadsBack(OFFSET_addr, addr, {JunkPointer}),
                  n \in FieldReadsBack(OFFSET_name, text, JunkTexts)}
             \cup (IF ResolvedFrameOverrun
                   THEN {[cache |-> cache, name |-> <<>>, looked |-> TRUE,
                          crashed |-> TRUE]}
                   ELSE {})

\* The history entry of a resovle(addr) call that ended as outcome o.
ResolveEntry(addr, o) ==
    [addr |-> addr, name |-> o.name, looked |-> o.looked, crashed |-> o.crashed]

\* SymFromAddr: the platform has a symbol for the first native function and none
\* for the second.
SymFromAddr(addr) == addr \in {201}

(***************************************************************************)
(* The flattener, the folder and the report writer.                        *)
(***************************************************************************)
RECURSIVE count_nodes(_, _)
RECURSIVE CountLoop(_, _)
CountLoop(fs, it) ==
    IF it = NULL THEN 0 ELSE count_nodes(fs, it) + CountLoop(fs, fs[it].next)

count_nodes(fs, frame) == 1 + CountLoop(fs, fs[frame].child)

\* A FlatStack; calloc leaves name NULL (here the empty text: no path is empty).
FlatStack(name, elapsed) == [name |-> name, elapsed |-> elapsed]

\* The calls append_children(..., it, prefix) a loop over the sibling list
\* starting at it makes, in order.
RECURSIVE SiblingCalls(_, _, _)
SiblingCalls(fs, it, prefix) ==
    IF it = NULL THEN <<>>
    ELSE <<[frame |-> it, prefix |-> prefix]>> \o SiblingCalls(fs, fs[it].next, prefix)

\* The tag and the size computations of append_children.
frame_prefix(type) == IF type = "CLT_C" THEN STR_C ELSE STR_LUA

namelen(prefix, frame_name) == strlen(prefix) + strlen(frame_name) + 2

\* sprintf(myname, "%s;%s%s", prefix, frame_prefix, frame_name)
myname(prefix, tag, frame_name) == prefix \o STR_semi \o tag \o frame_name

\* The bytes that sprintf writes, the terminator included.
BytesWritten(prefix, tag, frame_name) == strlen(myname(prefix, tag, frame_name)) + 1

\* The body of one append_children call up to its loop, frame_name given:
\* the array and the pending calls after it.
append_children(array, index, fs, frame, prefix, frame_name, pending) ==
    LET name == myname(prefix, frame_prefix(fs[frame].code.type), frame_name)
    IN  [stacks |-> [array EXCEPT ![index + 1] =
                        FlatStack(name, fs[frame].elapsed)],
         index |-> index + 1,
         pending |-> SiblingCalls(fs, fs[frame].child, name) \o pending]

\* qsort_compare_stacks with its arguments exchanged.
qsort_compare_stacks_reversed(a, b) == strcmp(b.name, a.name)

qsort_compare_stacks(a, b) == strcmp(a.name, b.name)

\* qsort: the orders it may leave the first n records in (it promises nothing
\* about the order of records that compare equal).
qsort(array, n) ==
    {[i \in 1..Len(array) |-> IF i <= n THEN array[p[i]] ELSE array[i]] :
        p \in {q \in Permutations(1..n) :
                 \A i \in 1..(n - 1) :
                     qsort_compare_stacks(array[q[i]], array[q[i + 1]]) <= 0}}

\* The loop of fold_stacks at read_index with write_index (C indices, from 0).
\* fault: the loop indexes the array at or beyond allocated, its length.
RECURSIVE FoldLoop(_, _, _, _, _)
FoldLoop(array, read_index, write_index, n, allocated) ==
    IF read_index = n
    THEN [fault |-> FALSE, stacks |-> array, ret |-> write_index]
    ELSE IF read_index >= allocated \/ write_index >= allocated
    THEN [fault |-> TRUE, stacks |-> array, ret |-> write_index]
    ELSE IF 0 = strcmp(array[read_index + 1].name, array[write_index + 1].name)
    THEN FoldLoop([array EXCEPT ![write_index + 1].elapsed =
                                    @ + array[read_index + 1].elapsed],
                  read_index + 1, write_index, n, allocated)
    ELSE FoldLoop([array EXCEPT ![write_index + 2] = array[read_index + 1]],
                  read_index + 1, write_index + 1, n, allocated)

fold_stacks(array, n) == FoldLoop(array, 1, 0, n, Len(array))

\* print_stacks: the lines written, one per record: the name, a space, the
\* elapsed count and a newline.
print_stacks(array, n, opened) ==
    IF opened
    THEN [opened |-> TRUE, lines |-> [ii \in 1..n |-> array[ii]]]
    ELSE [opened |-> FALSE, lines |-> <<>>]

(***************************************************************************)
(* The program: main and the hook.                                         *)
(***************************************************************************)
OKAY == 0
Results == {OKAY, 1}

InitCommon ==
    /\ z = OKAY
    /\ ret = "none"
    /\ frames = <<ZeroFrame>>
    /\ current_frame = root_frame
    /\ clock = 0
    /\ strheap = <<>>
    /\ trace = <<>>
    /\ stacks = <<>>
    /\ nstacks = 0
    /\ alloc_count = 0
    /\ work = [index |-> 0, pending |-> <<>>]
    /\ printed = [opened |-> FALSE, lines |-> <<>>]
    /\ g_resolved = <<>>
    /\ resolve_log = <<>>
    /\ fold_in = <<>>
    /\ fold_calls = 0

Init == pc = "init" /\ InitCommon

\* z = premake_init(L); the hook is installed when it is OKAY.
PremakeInit ==
    /\ pc = "init"
    /\ \E r \in Results :
          /\ z' = r
          /\ pc' = IF r = OKAY THEN "run" ELSE "reduce"
    /\ UNCHANGED <<ret, treeVars, flatVars, symVars, foldVars>>

\* One hook event: the counter reads t0 on entry to the handler and t1 at its
\* end.
HookEvent(event, ar, t0, t1) ==
    LET r == callhook(event, ar, frames, current_frame, strheap, t0, t1)
    IN  /\ pc' = IF r.ok THEN pc ELSE "aborted"
        /\ frames' = r.frames
        /\ current_frame' = r.current_frame
        /\ strheap' = r.heap
        /\ clock' = IF r.ok THEN t1 ELSE t0
        /\ trace' = Append(trace, [event |-> IF event = "LUA_HOOKCALL"
                                             THEN "call" ELSE "return",
                                   ar |-> ar, t0 |-> t0, t1 |-> t1,
                                   frame |-> IF event = "LUA_HOOKCALL"
                                             THEN r.current_frame
                                             ELSE current_frame])
        /\ UNCHANGED <<z, ret, flatVars, symVars, foldVars>>

\* The host calls a function.
CallEvent(ar, work_ticks, cost_ticks) ==
    /\ pc = "run"
    /\ HookEvent("LUA_HOOKCALL", ar, clock + work_ticks,
                 clock + work_ticks + cost_ticks)

\* The host returns from the innermost open call.
ReturnEvent(event, work_ticks, cost_ticks) ==
    /\ pc = "run"
    /\ Depth > 0
    /\ HookEvent(event, TailSite, clock + work_ticks,
                 clock + work_ticks + cost_ticks)

\* premake_execute returns, every call having returned.
ExecuteReturns ==
    /\ pc = "run"
    /\ Depth = 0
    /\ \E r \in Results : z' = r
    /\ pc' = "reduce"
    /\ UNCHANGED <<ret, treeVars, flatVars, symVars, foldVars>>

ReduceOverhead ==
    /\ pc = "reduce"
    /\ frames' = reduce_overhead(frames, root_frame)
    /\ pc' = "calc"
    /\ UNCHANGED <<z, ret, current_frame, clock, strheap, trace, flatVars,
                   symVars, foldVars>>

CalculateChildTime ==
    /\ pc = "calc"
    /\ frames' = calculate_child_time(frames, root_frame)
    /\ pc' = "flatten"
    /\ UNCHANGED <<z, ret, current_frame, clock, strheap, trace, flatVars,
                   symVars, foldVars>>

\* flatten_stacks up to its second loop.
FlattenStacks ==
    /\ pc = "flatten"
    /\ LET count == CountLoop(frames, frames[root_frame].child)
       IN  /\ nstacks' = count
           /\ alloc_count' = count
           /\ stacks' = [i \in 1..count |-> FlatStack(<<>>, 0)]
           /\ work' = [index |-> 0,
                       pending |-> SiblingCalls(frames, frames[root_frame].child,
                                                STR_root)]
           /\ pc' = IF count = 0 THEN "sort" ELSE "append"
    /\ UNCHANGED <<z, ret, treeVars, printed, symVars, foldVars>>

\* The next append_children call of the traversal.
AppendChildren ==
    /\ pc = "append"
    /\ work.pending # <<>>
    /\ LET call == Head(work.pending)
           code == frames[call.frame].code
           rest == Tail(work.pending)
           Emit(frame_name) ==
               LET a == append_children(stacks, work.index, frames, call.frame,
                                        call.prefix, frame_name, rest)
                   overrun == BytesWritten(call.prefix, frame_prefix(code.type),
                                           frame_name)
                              > namelen(call.prefix, frame_name)
               IN  \/ /\ stacks' = a.stacks
                      /\ work' = [index |-> a.index, pending |-> a.pending]
                      /\ pc' = IF a.pending = <<>> THEN "sort" ELSE "append"
                   \/ /\ overrun
                      /\ pc' = "crashed"
                      /\ UNCHANGED <<stacks, work>>
       IN  IF code.type = "CLT_C"
           THEN \E o \in resovle(g_resolved, code.addr, SymFromAddr(code.addr)) :
                   /\ g_resolved' = o.cache
                   /\ resolve_log' = Append(resolve_log, ResolveEntry(code.addr, o))
                   /\ IF o.crashed
                      THEN pc' = "crashed" /\ UNCHANGED <<stacks, work>>
                      ELSE Emit(o.name)
           ELSE /\ Emit(IF code.type = "CLT_Main" THEN STR_LuaMain
                        ELSE TextAt(strheap, code.addr))
                /\ UNCHANGED symVars
    /\ UNCHANGED <<z, ret, treeVars, nstacks, alloc_count, printed, foldVars>>

Sort ==
    /\ pc = "sort"
    /\ stacks' \in qsort(stacks, nstacks)
    /\ pc' = "fold"
    /\ UNCHANGED <<z, ret, treeVars, nstacks, alloc_count, work, printed,
                   symVars, foldVars>>

FoldStacks ==
    /\ pc = "fold"
    /\ LET r == fold_stacks(stacks, nstacks)
       IN  /\ stacks' = r.stacks
           /\ nstacks' = IF r.fault THEN nstacks ELSE r.ret
           /\ pc' = IF r.fault THEN "crashed" ELSE "print"
    /\ fold_in' = [i \in 1..nstacks |-> stacks[i]]
    /\ fold_calls' = fold_calls + 1
    /\ UNCHANGED <<z, ret, treeVars, alloc_count, work, printed, symVars>>

\* print_stacks, then free, lua_close and return z.
PrintAndReturn ==
    /\ pc = "print"
    /\ \E opened \in BOOLEAN : printed' = print_stacks(stacks, nstacks, opened)
    /\ ret' = z
    /\ pc' = "done"
    /\ UNCHANGED <<z, treeVars, stacks, nstacks, alloc_count, work, symVars,
                   foldVars>>

\* The cycles the program runs between two events, and the cycles the
\* bookkeeping of one event takes: the same number for every event of one run.
WorkTicks == {1}
CostTicks == {0, 1}

CostAsBefore(tr, c) == IF tr = <<>> THEN TRUE ELSE tr[1].t1 - tr[1].t0 = c

Next ==
    \/ PremakeInit
    \/ /\ NumCalls(trace) < MaxCalls
       /\ \E ar \in Descriptors, w \in WorkTicks, c \in CostTicks :
             CostAsBefore(trace, c) /\ CallEvent(ar, w, c)
    \/ \E e \in {"LUA_HOOKRET", "LUA_HOOKTAILRET"}, w \in WorkTicks, c \in CostTicks :
          CostAsBefore(trace, c) /\ ReturnEvent(e, w, c)
    \/ ExecuteReturns
    \/ ReduceOverhead
    \/ CalculateChildTime
    \/ FlattenStacks
    \/ AppendChildren
    \/ Sort
    \/ FoldStacks
    \/ PrintAndReturn

Spec == Init /\ [][Next]_vars

(***************************************************************************)
(* The resolver alone: any sequence of resovle calls.                      *)
(***************************************************************************)
InitResolve == pc = "resolve" /\ InitCommon

ResolveCall(addr) ==
    /\ pc = "resolve"
    /\ Len(resolve_log) < MaxResolveCalls
    /\ \E o \in resovle(g_resolved, addr, SymFromAddr(addr)) :
          /\ g_resolved' = o.cache
          /\ resolve_log' = Append(resolve_log, ResolveEntry(addr, o))
          /\ pc' = IF o.crashed THEN "crashed" ELSE pc
    /\ UNCHANGED <<z, ret, treeVars, flatVars, foldVars>>

NextResolve == \E addr \in CFunctions : ResolveCall(addr)

SpecResolve == InitResolve /\ [][NextResolve]_vars

(***************************************************************************)
(* fold_stacks alone: a sorted array, folded, and the reported records     *)
(* folded again.                                                           *)
(***************************************************************************)
MaxFoldCalls == 2

PATH_A == myname(STR_root, STR_LUA, <<65>>)      \* "root;LUA:A"
PATH_AB == myname(PATH_A, STR_LUA, <<66>>)       \* "root;LUA:A;LUA:B"
PATH_p == myname(STR_root, STR_C, <<112>>)       \* "root;C:p"

FoldPaths == {PATH_A, PATH_AB, PATH_p}
FoldElapsed == {0, 1, 5}

IsSorted(array, n) ==
    \A i \in 1..(n - 1) : qsort_compare_stacks(array[i], array[i + 1]) <= 0

RECURSIVE ArraysOfLength(_)
ArraysOfLength(n) ==
    IF n = 0 THEN {<<>>}
    ELSE {Append(a, FlatStack(name, e)) :
             a \in ArraysOfLength(n - 1), name \in FoldPaths, e \in FoldElapsed}

SortedArrays ==
    UNION {{a \in ArraysOfLength(n) : IsSorted(a, n)} : n \in 0..MaxRecords}

InitFold ==
    /\ pc = "foldtest"
    /\ z = OKAY
    /\ ret = "none"
    /\ frames = <<ZeroFrame>>
    /\ current_frame = root_frame
    /\ clock = 0
    /\ strheap = <<>>
    /\ trace = <<>>
    /\ stacks \in SortedArrays
    /\ nstacks = Len(stacks)
    /\ alloc_count = Len(stacks)
    /\ work = [index |-> 0, pending |-> <<>>]
    /\ printed = [opened |-> FALSE, lines |-> <<>>]
    /\ g_resolved = <<>>
    /\ resolve_log = <<>>
    /\ fold_in = <<>>
    /\ fold_calls = 0

ApplyFold ==
    /\ pc = "foldtest"
    /\ fold_calls < MaxFoldCalls
    /\ LET r == fold_stacks(stacks, nstacks)
       IN  /\ stacks' = r.stacks
           /\ nstacks' = IF r.fault THEN nstacks ELSE r.ret
           /\ pc' = IF r.fault THEN "crashed" ELSE pc
    /\ fold_in' = [i \in 1..nstacks |-> stacks[i]]
    /\ fold_calls' = fold_calls + 1
    /\ UNCHANGED <<z, ret, treeVars, alloc_count, work, printed, symVars>>

NextFold == ApplyFold

SpecFold == InitFold /\ [][NextFold]_vars

(***************************************************************************)
(* One program: main calls A; A calls B twice, then C.  The bookkeeping    *)
(* costs no cycles; the time each function runs before it returns varies.  *)
(***************************************************************************)
ScenarioStream ==
    << [event |-> "call", ar |-> MainSite],
       [event |-> "call", ar |-> NamedSite(11)],
       [event |-> "call", ar |-> NamedSite(12)],
       [event |-> "return", ar |-> TailSite],
       [event |-> "call", ar |-> NamedSite(12)],
       [event |-> "return", ar |-> TailSite],
       [event |-> "call", ar |-> NamedSite(13)],
       [event |-> "return", ar |-> TailSite],
       [event |-> "return", ar |-> TailSite],
       [event |-> "return", ar |-> TailSite] >>

ScenarioWork == {0, 50, 100}

\* The events tr are the first events of the scenario's program.
FollowsScenario(tr) ==
    /\ Len(tr) <= Len(ScenarioStream)
    /\ \A i \in 1..Len(tr) :
          /\ tr[i].event = ScenarioStream[i].event
          /\ tr[i].ar = ScenarioStream[i].ar

NextScenario ==
    \/ PremakeInit
    \/ \E ar \in {MainSite, NamedSite(11), NamedSite(12), NamedSite(13)} :
          CallEvent(ar, 0, 0) /\ FollowsScenario(trace')
    \/ \E w \in ScenarioWork :
          ReturnEvent("LUA_HOOKRET", w, 0) /\ FollowsScenario(trace')
    \/ ExecuteReturns /\ (trace = <<>> \/ Len(trace) = Len(ScenarioStream))
    \/ ReduceOverhead
    \/ CalculateChildTime
    \/ FlattenStacks
    \/ AppendChildren
    \/ Sort
    \/ FoldStacks
    \/ PrintAndReturn

SpecScenario == Init /\ [][NextScenario]_vars

(***************************************************************************)
(* Properties.                                                             *)
(***************************************************************************)
Nodes == 1..Len(frames)

\* The children of frame f, in list order.
RECURSIVE Siblings(_, _)
Siblings(fs, it) == IF it = NULL THEN <<>> ELSE <<it>> \o Siblings(fs, fs[it].next)

Children(fs, f) == Siblings(fs, fs[f].child)

\* The records the report holds: the first nstacks records of the array.
Reported == [i \in 1..nstacks |-> stacks[i]]

\* The identity of a call site as the data model defines it: the variant and
\* its payload, the payload of an anonymous location being its file:line text.
SiteLocation(ar) ==
    IF ar.what = "C" THEN [variant |-> "NativeFunction", payload |-> FormatP(ar.cfunc)]
    ELSE IF ar.what = "main" THEN [variant |-> "ProgramEntry", payload |-> <<>>]
    ELSE IF ar.name # NULL /\ LuaString[ar.name][1] # CH_question
    THEN [variant |-> "NamedScriptFunction", payload |-> LuaString[ar.name]]
    ELSE LET slash == strrchr(ar.source, CH_slash)
         IN  [variant |-> "AnonymousScriptLocation",
              payload |-> SubSeq(ar.source, slash + 1, Len(ar.source))
                          \o STR_colon \o FormatD(ar.currentline)]

Classified(ar) == ar.what \in {"C", "Lua", "main"}

\* The (parent-path, code-location) pair of the call event tr[i].
ObservedPair(tr, i) ==
    LET open == OpenCalls(SubSeq(tr, 1, i - 1))
    IN  <<[k \in 1..Len(open) |-> SiteLocation(tr[open[k]].ar)],
          SiteLocation(tr[i].ar)>>

ObservedPairs(tr) ==
    {ObservedPair(tr, i) : i \in {j \in CallEvents(tr) : Classified(tr[j].ar)}}

\* C1: when the run has ended, the tree has as many nodes below the root as
\* there were distinct (parent-path, code-location) pairs among the call events,
\* whatever the kinds of the locations.
C1_OneNodePerDistinctSite ==
    pc = "reduce" => Len(frames) - 1 = Cardinality(ObservedPairs(trace))

\* The measured values of the scenario of C2: B runs 100 cycles twice, C runs 50,
\* A and main do nothing of their own, and no bookkeeping costs a cycle.
ScenarioCase ==
    /\ Len(trace) = Len(ScenarioStream)
    /\ \A i \in 1..Len(trace) : trace[i].t1 = trace[i].t0
    /\ trace[4].t0 - trace[3].t0 = 100
    /\ trace[6].t0 - trace[5].t0 = 100
    /\ trace[8].t0 - trace[7].t0 = 50
    /\ trace[9].t0 - trace[2].t0 = 250
    /\ trace[10].t0 - trace[1].t0 = 250

Reports(path, elapsed) ==
    \E i \in 1..Len(printed.lines) : printed.lines[i] = FlatStack(path, elapsed)

SCN_main == myname(STR_root, STR_LUA, STR_LuaMain)
SCN_A == myname(SCN_main, STR_LUA, <<65>>)
SCN_AB == myname(SCN_A, STR_LUA, <<66>>)
SCN_AC == myname(SCN_A, STR_LUA, <<67>>)

\* C2: in the scenario main -> A -> B, B again, C with B = 100 twice, C = 50 and
\* no overhead, the report written holds A;B with 200, A;C with 50 and A with 0
\* (the segment of main read as the text the program prints for the entry).
C2_ScenarioReport ==
    (pc = "done" /\ printed.opened /\ ScenarioCase)
        => /\ Reports(SCN_AB, 200)
           /\ Reports(SCN_AC, 50)
           /\ Reports(SCN_A, 0)

\* The distinct paths of the first n records of a sorted array, in order, each
\* with the sum of the elapsed values of the records with that path.
RECURSIVE SumElapsed(_, _, _)
SumElapsed(array, n, path) ==
    IF n = 0 THEN 0
    ELSE SumElapsed(array, n - 1, path)
         + (IF array[n].name = path THEN array[n].elapsed ELSE 0)

RECURSIVE FoldedSpec(_, _)
FoldedSpec(array, n) ==
    IF n = 0 THEN <<>>
    ELSE LET before == FoldedSpec(array, n - 1)
         IN  IF \E i \in 1..(n - 1) : array[i].name = array[n].name
             THEN before
             ELSE Append(before,
                         FlatStack(array[n].name,
                                   SumElapsed(array, Len(array), array[n].name)))

\* C3: after fold_stacks ran on a sorted array of n >= 1 records, the reported
\* records are one record per distinct path of the input, in sorted order, with
\* the summed elapsed: none is missing.
C3_FoldReportsEveryPath ==
    (fold_calls = 1 /\ Len(fold_in) >= 1 /\ pc # "crashed")
        => Reported = FoldedSpec(fold_in, Len(fold_in))

RECURSIVE SumInclusive(_, _)
SumInclusive(fs, kids) ==
    IF kids = <<>> THEN 0
    ELSE fs[Head(kids)].elapsed + fs[Head(kids)].children_time
         + SumInclusive(fs, Tail(kids))

\* C4: after calculate_child_time, every node's children_time is the sum over
\* all of its children of (elapsed + children_time).
C4_ChildrenTimeIsSum ==
    pc = "flatten"
        => \A f \in Nodes :
              frames[f].children_time = SumInclusive(frames, Children(frames, f))

\* C5: calculate_child_time leaves, for every node, elapsed + children_time equal
\* to the elapsed the node had before it (after reduce_overhead).
C5_SelfTimeRoundTrip ==
    [][pc = "calc"
         => \A f \in Nodes :
               frames'[f].elapsed + frames'[f].children_time = frames[f].elapsed]_vars

C5_Witness ==
    /\ pc = "flatten"
    /\ \E f \in Nodes :
          /\ f # root_frame
          /\ Len(Children(frames, f)) >= 1
          /\ frames[f].children_time > 0
          /\ frames[f].elapsed > 0

\* C6: when reduce_overhead runs, no node, the root included, has more overhead
\* than elapsed, so no subtraction wraps.
C6_OverheadWithinElapsed ==
    pc = "reduce" => \A f \in Nodes : frames[f].overhead <= frames[f].elapsed

\* C7: fold_stacks applied to the records a previous fold_stacks call reported
\* reports the same records.
C7_FoldIdempotent ==
    fold_calls = 2 => (pc # "crashed" /\ Reported = fold_in)

\* C8: the lines print_stacks wrote are strictly increasing by path under strcmp.
C8_ReportSortedUnique ==
    (pc = "done" /\ printed.opened)
        => \A i \in 1..(Len(printed.lines) - 1) :
              strcmp(printed.lines[i].name, printed.lines[i + 1].name) < 0

C8_Witness ==
    /\ pc = "done"
    /\ printed.opened
    /\ Len(printed.lines) >= 2

\* C9: SymFromAddr is asked at most once per address; a later call for an
\* address returns the name of the first without asking; a name returned is not
\* empty, and it is the address's "0x..." fallback when the platform has no symbol.
C9_ResolveOncePerAddress ==
    LET Returned == {i \in 1..Len(resolve_log) : ~resolve_log[i].crashed}
    IN  /\ \A a \in CFunctions :
              Cardinality({i \in 1..Len(resolve_log) :
                              resolve_log[i].addr = a /\ resolve_log[i].looked}) <= 1
        /\ \A i, j \in Returned :
              (i < j /\ resolve_log[i].addr = resolve_log[j].addr)
                  => /\ ~resolve_log[j].looked
                     /\ resolve_log[j].name = resolve_log[i].name
        /\ \A i \in Returned :
              /\ resolve_log[i].name # <<>>
              /\ ~SymFromAddr(resolve_log[i].addr)
                    => resolve_log[i].name = STR_0x \o FormatP(resolve_log[i].addr)

\* C10: every execution ends with main returning z, the result of the run, and
\* a report that could not be opened holds no line.
C10_MainReturnsRunResult ==
    /\ pc # "crashed"
    /\ pc = "done" => (ret = z /\ (~printed.opened => printed.lines = <<>>))

\* The last event delivered, once the step has been taken.
LastEvent == trace[Len(trace)]

\* C11: a call event whose descriptor kind is none of "C", "Lua" and "main"
\* aborts the program; the step creates no node, changes no node and leaves the
\* cursor where it was.
C11_UnknownKindIsFatal ==
    [][(pc = "run" /\ Len(trace') > Len(trace)
          /\ trace'[Len(trace')].event = "call"
          /\ ~Classified(trace'[Len(trace')].ar))
         => (pc' = "aborted" /\ frames' = frames
               /\ current_frame' = current_frame)]_vars

C11_Witness ==
    /\ pc = "aborted"
    /\ ~Classified(LastEvent.ar)
    /\ Len(frames) > 1
    /\ current_frame # root_frame

\* The step is a hook event of the given kind that returned to the host.
CallStep ==
    /\ pc = "run" /\ pc' = "run" /\ Len(trace') > Len(trace)
    /\ trace'[Len(trace')].event = "call"

ReturnStep ==
    /\ pc = "run" /\ pc' = "run" /\ Len(trace') > Len(trace)
    /\ trace'[Len(trace')].event = "return"

\* The cost of the bookkeeping of the event the step delivers.
StepCost == trace'[Len(trace')].t1 - trace'[Len(trace')].t0

\* C12: a call event adds its bookkeeping cost to the overhead of the frame it
\* enters: the overhead after is the overhead before (0 for a new frame) plus
\* t1 - t0.
C12_CallAddsOverhead ==
    [][CallStep
         => frames'[current_frame'].overhead
              = (IF current_frame' <= Len(frames)
                 THEN frames[current_frame'].overhead ELSE 0) + StepCost]_vars

\* The return event that closed the call event tr[i]: the first event after
\* which the call is no longer open (0 while it is open).
MatchingReturn(tr, i) ==
    LET Closed(j) == \A k \in 1..Len(OpenCalls(SubSeq(tr, 1, j))) :
                        OpenCalls(SubSeq(tr, 1, j))[k] # i
    IN  IF \E j \in (i + 1)..Len(tr) : Closed(j)
        THEN CHOOSE j \in (i + 1)..Len(tr) :
                Closed(j) /\ \A k \in (i + 1)..(j - 1) : ~Closed(k)
        ELSE 0

\* The time between the call tr[i] and the stop timestamp of its return.
ActivationTime(tr, i) == tr[MatchingReturn(tr, i)].t0 - tr[i].t0

RECURSIVE SumActivations(_, _, _)
SumActivations(tr, n, f) ==
    IF n = 0 THEN 0
    ELSE SumActivations(tr, n - 1, f)
         + (IF tr[n].event = "call" /\ tr[n].frame = f /\ MatchingReturn(tr, n) # 0
            THEN ActivationTime(tr, n) ELSE 0)

\* The indices of trace of the calls still open, outermost first.
Open == OpenCalls(trace)

\* C13: while the hook runs, a frame with an open activation holds the start
\* timestamp t0 of the call that opened it; and whenever every call has returned
\* (by a return or a tail-return event alike), each frame's elapsed is the sum
\* over its activations of (stop of the matching return - t0 of the call).
C13_ElapsedIsSumOfActivations ==
    pc = "run"
        => /\ \A k \in 1..Len(Open) :
                 frames[trace[Open[k]].frame].start = trace[Open[k]].t0
           /\ Depth = 0
                 => \A f \in Nodes :
                       frames[f].elapsed = SumActivations(trace, Len(trace), f)

C13_Witness ==
    /\ pc = "run"
    /\ Depth = 0
    /\ \E f \in Nodes, i, j \in CallEvents(trace) :
          /\ i < j
          /\ trace[i].frame = f /\ trace[j].frame = f
          /\ frames[f].elapsed = ActivationTime(trace, i) + ActivationTime(trace, j)
          /\ ActivationTime(trace, i) > 0
    /\ \E k1, k2 \in 1..Len(trace) :
          /\ trace[k1].event = "return" /\ trace[k2].event = "return"
          /\ trace[k1].frame # trace[k2].frame

\* C14: a call event changes no frame's elapsed, and no frame's overhead but
\* that of the frame it enters (a new frame is the entered one, with elapsed 0);
\* a return event changes the elapsed of the frame being left only, the overhead
\* of its parent only, makes no frame, and moves the cursor to that parent.
C14_FrameEffects ==
    [][/\ CallStep
          => /\ \A f \in 1..Len(frames) :
                   /\ frames'[f].elapsed = frames[f].elapsed
                   /\ f # current_frame' => frames'[f].overhead = frames[f].overhead
             /\ \A f \in (Len(frames) + 1)..Len(frames') :
                   f = current_frame' /\ frames'[f].elapsed = 0
       /\ ReturnStep
          => /\ Len(frames') = Len(frames)
             /\ current_frame' = frames[current_frame].parent
             /\ \A f \in 1..Len(frames) :
                   /\ f # current_frame => frames'[f].elapsed = frames[f].elapsed
                   /\ f # frames[current_frame].parent
                         => frames'[f].overhead = frames[f].overhead]_vars

\* A return with a cost has just been charged to a caller that is not the root,
\* after a call into an existing frame of the same run.
C14_Witness ==
    /\ pc = "run"
    /\ trace # <<>>
    /\ LastEvent.event = "return"
    /\ LastEvent.t1 > LastEvent.t0
    /\ current_frame # root_frame
    /\ frames[current_frame].overhead >= 2
    /\ frames[LastEvent.frame].elapsed > 0

\* The overhead-compensated elapsed of frame f, read after calculate_child_time:
\* what it holds plus what was subtracted from it.
Compensated(fs, f) == fs[f].elapsed + fs[f].children_time

\* C15: after calculate_child_time, for every frame but the root, the children
\* time subtracted was at most the frame's compensated elapsed, so its self time
\* did not wrap (a wrapped value is a negative representative); and the sum of
\* the compensated elapsed of all its children is within that bound too.
C15_SelfTimeNotNegative ==
    pc = "flatten"
        => \A f \in Nodes \ {root_frame} :
              /\ frames[f].children_time >= 0
              /\ frames[f].children_time <= Compensated(frames, f)
              /\ frames[f].elapsed >= 0
              /\ SumInclusive(frames, Children(frames, f)) <= Compensated(frames, f)

\* A frame with two children, whose times both count, has been reduced.
C15_Witness ==
    /\ pc = "flatten"
    /\ \E f \in Nodes \ {root_frame} :
          /\ Len(Children(frames, f)) >= 2
          /\ frames[f].children_time > 0
          /\ SumInclusive(frames, Children(frames, f)) > frames[f].children_time
          /\ frames[f].overhead > 0

\* The display name of a frame: the function's name, the file:line text, the
\* resolved symbol (its "0x..." address when there is none), or the entry's text.
DisplayName(fs, heap, f) ==
    LET code == fs[f].code
    IN  IF code.type = "CLT_C"
        THEN (IF SymFromAddr(code.addr) THEN SymbolName[code.addr]
              ELSE STR_0x \o FormatP(code.addr))
        ELSE IF code.type = "CLT_Main" THEN STR_LuaMain
        ELSE TextAt(heap, code.addr)

\* The records of the frames of the sibling list starting at it and of their
\* descendants, in pre-order, the paths starting with prefix.
RECURSIVE PreOrder(_, _, _, _)
PreOrder(fs, heap, it, prefix) ==
    IF it = NULL THEN <<>>
    ELSE LET path == prefix \o STR_semi \o frame_prefix(fs[it].code.type)
                         \o DisplayName(fs, heap, it)
         IN  <<FlatStack(path, fs[it].elapsed)>>
             \o PreOrder(fs, heap, fs[it].child, path)
             \o PreOrder(fs, heap, fs[it].next, prefix)

\* C16: flatten_stacks runs to its end; every record is written below the
\* allocated length; and the array it returns holds one record per frame but
\* the root, in pre-order, each with its parent's path followed by ";", the tag
\* and the display name (from "root" at the top) and with the frame's elapsed.
C16_FlattenOneRecordPerNode ==
    /\ ~(pc = "crashed" /\ fold_calls = 0)
    /\ pc = "append" => work.index < alloc_count
    /\ pc = "sort"
          => /\ nstacks = Len(frames) - 1
             /\ work.index = nstacks
             /\ stacks = PreOrder(frames, strheap, frames[root_frame].child, STR_root)

\* The same, for the runs in which flatten_stacks reached its end and every
\* native frame got its own symbol text.
C16_WhenUndamaged ==
    (pc = "sort" /\ \A i \in 1..Len(resolve_log) :
                       resolve_log[i].name
                         = (IF SymFromAddr(resolve_log[i].addr)
                            THEN SymbolName[resolve_log[i].addr]
                            ELSE STR_0x \o FormatP(resolve_log[i].addr)))
        => /\ nstacks = Len(frames) - 1
           /\ work.index = nstacks
           /\ stacks = PreOrder(frames, strheap, frames[root_frame].child, STR_root)

\* C17: the first fold_stacks call on an array of n >= 0 records returns without
\* indexing the array outside [0, n), reports no more records than it was
\* given, and reports none for n = 0.
C17_FoldSafeForEveryCount ==
    fold_calls = 1
        => /\ pc # "crashed"
           /\ nstacks <= Len(fold_in)
           /\ Len(fold_in) = 0 => nstacks = 0

\* The frames on the parent links from f up, outermost first, f last; the root
\* (or a null link) ends the walk and is not part of it.
RECURSIVE AncestorChain(_, _)
AncestorChain(fs, f) ==
    IF f = NULL \/ f = root_frame THEN <<>>
    ELSE Append(AncestorChain(fs, fs[f].parent), f)

\* The frame's code is the location of the call site ar.
LocationMatches(code, ar) ==
    IF ar.what = "C" THEN code = CodeLocation("CLT_C", ar.cfunc)
    ELSE IF ar.what = "main" THEN code = CodeLocation("CLT_Main", NULL)
    ELSE IF ar.name # NULL /\ LuaString[ar.name][1] # CH_question
    THEN code = CodeLocation("CLT_Lua", ar.name)
    ELSE /\ code.type = "CLT_LuaAnonymous"
         /\ TextAt(strheap, code.addr) = SiteLocation(ar).payload

\* C18: while the hook runs, the cursor is a frame of the tree; the frames on its
\* parent links, from the root down, are the frames of the calls still open, in
\* order, each with the location of its call site and none twice; so the cursor
\* is the root exactly when no call is open (a return never finds it there).
C18_CursorIsOpenCallStack ==
    pc = "run"
        => LET chain == AncestorChain(frames, current_frame)
           IN  /\ current_frame \in Nodes
               /\ Len(chain) = Len(Open)
               /\ \A k \in 1..Len(chain) :
                     /\ chain[k] = trace[Open[k]].frame
                     /\ LocationMatches(frames[chain[k]].code, trace[Open[k]].ar)
                     /\ frames[chain[k]].parent
                           = (IF k = 1 THEN root_frame ELSE chain[k - 1])
                     /\ \A j \in 1..(k - 1) : chain[j] # chain[k]
               /\ (current_frame = root_frame) <=> (Depth = 0)

\* Two calls are open, after at least one return, the inner one in a frame that
\* was entered before.
C18_Witness ==
    /\ pc = "run"
    /\ Len(Open) = 2
    /\ Len(trace) >= 4
    /\ \E i \in CallEvents(trace) :
          i < Open[2] /\ trace[i].frame = current_frame /\ MatchingReturn(trace, i) # 0

\* The texts resovle may hand to the append_children call for a native frame
\* at addr, the cache being as it is.
ResolvedNames(addr) ==
    {o.name : o \in {r \in resovle(g_resolved, addr, SymFromAddr(addr)) : ~r.crashed}}

\* C19: for the append_children call about to run, whatever the kind of its
\* frame, the length allocated for the path is at least the number of bytes
\* sprintf writes into it: the prefix, ";", the tag, the name and the terminator.
C19_PathBufferLargeEnough ==
    (pc = "append" /\ work.pending # <<>>)
        => LET call == Head(work.pending)
               code == frames[call.frame].code
               names == IF code.type = "CLT_C" THEN ResolvedNames(code.addr)
                        ELSE IF code.type = "CLT_Main" THEN {STR_LuaMain}
                        ELSE {TextAt(strheap, code.addr)}
           IN  \A frame_name \in names :
                  namelen(call.prefix, frame_name)
                      >= BytesWritten(call.prefix, frame_prefix(code.type), frame_name)

====
